---- MODULE Spec2Model ----
(***************************************************************************)
(* A model of src/data_augmentation/augment_data_noise.py.                 *)
(*                                                                         *)
(* Two specifications share the module:                                    *)
(*   Spec       a run of augment_coco_dataset over a COCO annotation set,  *)
(*              one step per iteration of its loop over coco_data.images   *)
(*              (the call of add_noise_and_update_annotations included);   *)
(*   NoiseSpec  the pixel arithmetic of add_noise_and_update_annotations   *)
(*              on one 8 bit component.                                    *)
(* Strings that the code slices or splits (file names, paths) are          *)
(* sequences of one-character strings.                                     *)
(***************************************************************************)
EXTENDS Integers, Sequences, FiniteSets, TLC

(* ------------------------------ bounds -------------------------------- *)

\* Longest `images` list of an input annotation set.
MaxImages == 2

\* Longest `annotations` list of an input annotation set.
MaxAnns == 2

\* Largest magnitude of a noise sample (samples are drawn in steps of 1/2).
MaxNoise == 260

(* ------------------------- program constants -------------------------- *)

\* image_id + 4200000
IdOffset == 4200000

\* image_info["file_name"][7:]
PrefixLen == 7

\* np.uint8 holds 0..255; np.clip(..., 0, 255)
ClipMax == 255

\* The modulus of np.uint8 arithmetic.
Uint8Mod == 256

\* noise_factor = 20 in the entry point.
EntryNoiseFactor == 20

(* ------------------------------ strings ------------------------------- *)

\* The result `None` of a call that produced no image path.
None == <<>>

Sep == "/"

Dot == "."

\* The literal "_augmented_noise.png".
NoiseSuffix ==
    <<"_","a","u","g","m","e","n","t","e","d","_","n","o","i","s","e",
      ".","p","n","g">>

\* The literal 'images\\' that prefixes an output file_name.
ImagesPrefix == <<"i","m","a","g","e","s","\\">>

\* images_subdir: os.path.join(output_dir, "images_DK") of the entry point.
ImagesSubdir == <<"o","u","t","/","i","m","a","g","e","s","_","D","K">>

\* The input image directory: dirname(coco_json_path)/images_DK.
InputImagesDir == <<"i","n","/","i","m","a","g","e","s","_","D","K">>

\* s[k:] of Python, k >= 0.
DropPrefix(s, k) == SubSeq(s, k + 1, Len(s))

\* s.rfind(c), 1-based; 0 when c does not occur.
RFind(s, c) ==
    LET hits == {i \in 1..Len(s) : s[i] = c}
    IN  IF hits = {} THEN 0 ELSE CHOOSE i \in hits : \A j \in hits : j <= i

\* os.path.basename (posixpath): what follows the last "/".
Basename(p) == SubSeq(p, RFind(p, Sep) + 1, Len(p))

\* os.path.dirname is not needed: the input directory is a constant here.

\* os.path.splitext(p)[0] (posixpath): p up to its last dot, when that dot
\* comes after the last "/" and after a character of the file name that is
\* not a dot; p itself otherwise.
SplitExtRoot(p) ==
    LET sepIndex == RFind(p, Sep)
        dotIndex == RFind(p, Dot)
    IN  IF /\ dotIndex > sepIndex
           /\ \E k \in (sepIndex + 1)..(dotIndex - 1) : p[k] # Dot
        THEN SubSeq(p, 1, dotIndex - 1)
        ELSE p

\* os.path.join(a, b) for a relative b and a directory a without a
\* trailing separator.
PathJoin(a, b) == a \o <<Sep>> \o b

(* ------------------------------ inputs -------------------------------- *)

IdSet == {1, 2}

\* file_name values: a seven character directory prefix and a relative path.
\* images/a.jpg, images/a.png, images/d/a.jpg, images\b.jpg
NameSet ==
    { <<"i","m","a","g","e","s","/","a",".","j","p","g">>,
      <<"i","m","a","g","e","s","/","a",".","p","n","g">>,
      <<"i","m","a","g","e","s","/","d","/","a",".","j","p","g">>,
      <<"i","m","a","g","e","s","\\","b",".","j","p","g">> }

\* The width and height an input ImageRecord states for a file.
WidthOf(name) == IF Len(name) = 12 THEN 100 ELSE 64

HeightOf(name) == IF name[8] = "a" THEN 80 ELSE 48

ImageRecords ==
    { [id |-> i, file_name |-> n, width |-> WidthOf(n), height |-> HeightOf(n)] :
        i \in IdSet, n \in NameSet }

\* The k-th annotation of an input: its own id and bounding box follow its
\* position, its image_id is free.
AnnotationAt(k, image_id) ==
    [id |-> 100 + k, image_id |-> image_id, category_id |-> 1,
     bbox |-> <<0, 0, 10 * k, 10>>]

SeqsUpTo(S, n) == UNION { [1..k -> S] : k \in 0..n }

ImageLists == SeqsUpTo(ImageRecords, MaxImages)

AnnotationLists ==
    { [k \in DOMAIN ids |-> AnnotationAt(k, ids[k])] : ids \in SeqsUpTo(IdSet, MaxAnns) }

\* Top-level fields of an annotation set besides images and annotations.
ExtraFieldSets == { {}, {"info", "categories"} }

ExtraValue(key) == IF key = "info" THEN "frames DK" ELSE "hand"

\* An AnnotationSet: a mapping from top-level keys to values.
AnnotationSet(images, annotations, extras) ==
    [key \in {"images", "annotations"} \cup extras |->
        IF key = "images" THEN images
        ELSE IF key = "annotations" THEN annotations
        ELSE ExtraValue(key)]

AnnotationSets ==
    { AnnotationSet(im, an, ex) :
        im \in ImageLists, an \in AnnotationLists, ex \in ExtraFieldSets }

\* What Image.open and np.array do with a path: the file is there and
\* decodes, it is not there (FileNotFoundError), or it is there and does not
\* decode (another exception).
FileStates == {"present", "missing", "undecodable"}

(* ------------------------------- state -------------------------------- *)

VARIABLES
    input_json,       \* the content of the file at coco_json_path
    coco_data,        \* the loaded mapping, mutated in place at the end
    new_images,       \* the accumulated output ImageRecords
    new_annotations,  \* the accumulated output AnnotationRecords
    idx,              \* position of the loop over coco_data["images"]
    pc,               \* "start", "loop", "done", "aborted"
    disk,             \* input image files opened so far: path -> file state
    out_files,        \* images_subdir: the files in it, each with its source
    out_json,         \* the written annotation file, empty before the write
    json_writes,      \* how often the annotation file was written
    log,              \* what each iteration did, in order
    img_src,          \* for each new_images entry, its input position
    ann_src,          \* for each new_annotations entry, its input position
    abort_cause,      \* the exception that ended the run, "" when none
    image_array,      \* one decoded pixel component
    noise_factor,     \* standard deviation of the noise
    noise2,           \* the noise sample, in halves
    noise,            \* the noise sample after astype(np.uint8)
    noisy_image_array,\* the component that is encoded and written
    npc               \* "decoded", "saved", "idle"

dataVars ==
    <<input_json, coco_data, new_images, new_annotations, idx, pc, disk,
      out_files, out_json, json_writes, log, img_src, ann_src, abort_cause>>

pixelVars == <<image_array, noise_factor, noise2, noise, noisy_image_array, npc>>

vars == <<dataVars, pixelVars>>

(* ------------------ add_noise_and_update_annotations ------------------ *)

\* str.replace("\\", "/")
ReplaceBackslash(s) == [k \in DOMAIN s |-> IF s[k] = "\\" THEN Sep ELSE s[k]]

\* The path that file_name resolves to: the input image directory joined
\* with the file_name without its first seven characters, backslashes
\* replaced. (os.path.normpath changes no path built from NameSet: none
\* holds ".", ".." or a doubled separator.)
ResolvedPath(file_name) ==
    ReplaceBackslash(PathJoin(InputImagesDir, DropPrefix(file_name, PrefixLen)))

\* ResolvedPath, tabulated over the file names of the inputs.
ResolvedPaths == [n \in NameSet |-> ResolvedPath(n)]

\* image_path of an ImageRecord.
ImagePath(image_info) == ResolvedPaths[image_info.file_name]

InputPaths == { ResolvedPaths[n] : n \in NameSet }

\* The name a noisy image is saved under: the base name of the input path
\* without its extension, followed by "_augmented_noise.png".
AugmentedName(image_path) == SplitExtRoot(Basename(image_path)) \o NoiseSuffix

\* AugmentedName, tabulated over the paths of the inputs.
AugmentedNames == [p \in InputPaths |-> AugmentedName(p)]

\* noisy_image_name
NoisyImageName(image_path) == AugmentedNames[image_path]

\* noisy_image_path
NoisyImagePath(image_path, output_dir) ==
    PathJoin(output_dir, NoisyImageName(image_path))

\* A variant that builds the new annotation from the fields it knows instead
\* of copying the record.
CopyKnownFields(annotation, new_image_id) ==
    [image_id |-> new_image_id, bbox |-> annotation.bbox]

\* new_annotation = annotation.copy(); new_annotation["image_id"] = new_image_id
CopyWithImageId(annotation, new_image_id) ==
    [annotation EXCEPT !.image_id = new_image_id]

\* The loop that builds new_annotations inside the call.
UpdateAnnotations(annotations, new_image_id) ==
    [k \in DOMAIN annotations |-> CopyWithImageId(annotations[k], new_image_id)]

\* A variant that returns the output path and the annotations also after a
\* FileNotFoundError.
AddNoiseAlwaysReturningPath(image_path, annotations, output_dir, new_image_id, state) ==
    [path |-> NoisyImagePath(image_path, output_dir),
     annotations |-> UpdateAnnotations(annotations, new_image_id)]

\* What the call returns when it returns: (None, []) after a
\* FileNotFoundError, the path written and the updated annotations otherwise.
AddNoiseAndUpdateAnnotations(image_path, annotations, output_dir, new_image_id, state) ==
    IF state = "missing"
    THEN [path |-> None, annotations |-> <<>>]
    ELSE [path |-> NoisyImagePath(image_path, output_dir),
          annotations |-> UpdateAnnotations(annotations, new_image_id)]

\* A variant whose except clause does not catch the FileNotFoundError.
CallRaisesOnMissingToo(state) == state # "present"

\* Whether the call ends in an exception that it does not catch.
CallRaises(state) == state = "undecodable"

(* ------------------------ augment_coco_dataset ------------------------ *)

\* Positions of the annotations with ann["image_id"] == image_id, in order.
MatchingPositions(annotations, image_id) ==
    SelectSeq([k \in 1..Len(annotations) |-> k],
              LAMBDA k : annotations[k].image_id = image_id)

\* annotations = [ann for ann in coco_data["annotations"] if ...]
AnnotationsOf(annotations, image_id) ==
    LET at == MatchingPositions(annotations, image_id)
    IN  [j \in 1..Len(at) |-> annotations[at[j]]]

\* A variant with a digit of the offset lost.
NewImageIdShortOffset(image_id) == image_id + 420000

\* new_image_id
NewImageId(image_id) == image_id + IdOffset

\* A variant that keeps the id of the input record.
NoisyImageInfoOldId(image_info, new_image_id, noisy_image_path) ==
    [id |-> image_info.id,
     file_name |-> ImagesPrefix \o Basename(noisy_image_path),
     width |-> image_info.width,
     height |-> image_info.height]

\* noisy_image_info
NoisyImageInfo(image_info, new_image_id, noisy_image_path) ==
    [id |-> new_image_id,
     file_name |-> ImagesPrefix \o Basename(noisy_image_path),
     width |-> image_info.width,
     height |-> image_info.height]

\* noisy_image.save(noisy_image_path): the directory holds one file per path,
\* a file saved to the path of another replaces it.
SaveFile(files, path, image) ==
    {f \in files : f.path # path} \cup {[path |-> path, image |-> image]}

EmptyMapping == [key \in {} |-> 0]

IdlePixels ==
    /\ image_array = 0
    /\ noise_factor = EntryNoiseFactor
    /\ noise2 = 0
    /\ noise = 0
    /\ noisy_image_array = 0
    /\ npc = "idle"

Init ==
    /\ input_json \in AnnotationSets
    /\ coco_data = EmptyMapping
    /\ new_images = <<>>
    /\ new_annotations = <<>>
    /\ idx = 0
    /\ pc = "start"
    /\ disk = [p \in InputPaths |-> "unopened"]
    /\ out_files = {}
    /\ out_json = EmptyMapping
    /\ json_writes = 0
    /\ log = <<>>
    /\ img_src = <<>>
    /\ ann_src = <<>>
    /\ abort_cause = ""
    /\ IdlePixels

\* json.load of the input, the two makedirs and the empty result lists. A
\* file that is missing or is not JSON ends the run.
Load ==
    /\ pc = "start"
    /\ \E readable \in BOOLEAN :
          IF readable
          THEN /\ coco_data' = input_json
               /\ idx' = 1
               /\ pc' = "loop"
               /\ UNCHANGED abort_cause
          ELSE /\ pc' = "aborted"
               /\ abort_cause' = "json"
               /\ UNCHANGED <<coco_data, idx>>
    /\ new_images' = <<>>
    /\ new_annotations' = <<>>
    /\ UNCHANGED <<input_json, disk, out_files, out_json, json_writes, log,
                   img_src, ann_src, pixelVars>>

\* One iteration of the loop over coco_data["images"]: the call of
\* add_noise_and_update_annotations and what the loop does with its result.
\* An exception of the call other than FileNotFoundError ends the run.
\* (The locals are bound by \E over one-element sets.)
ProcessImage ==
    /\ pc = "loop"
    /\ idx <= Len(coco_data["images"])
    /\ \E state \in FileStates, image_info \in {coco_data["images"][idx]} :
       \E image_path \in {ImagePath(image_info)},
          annotations \in {AnnotationsOf(coco_data["annotations"], image_info.id)},
          new_image_id \in {NewImageId(image_info.id)},
          raised \in {CallRaises(state)} :
       \E r \in {AddNoiseAndUpdateAnnotations(
                    image_path, annotations, ImagesSubdir, new_image_id, state)} :
       \E found \in {~raised /\ r.path # None} :
          /\ disk[image_path] \in {"unopened", state}
          /\ disk' = [disk EXCEPT ![image_path] = state]
          /\ pc' = IF raised THEN "aborted" ELSE pc
          /\ abort_cause' = IF raised THEN "decode" ELSE abort_cause
          /\ idx' = IF raised THEN idx ELSE idx + 1
          /\ log' = IF raised THEN log
                    ELSE Append(log, [image |-> idx, path |-> r.path])
          /\ out_files' = IF found THEN SaveFile(out_files, r.path, idx)
                          ELSE out_files
          /\ new_annotations' = IF found THEN new_annotations \o r.annotations
                                ELSE new_annotations
          /\ new_images' =
                IF found
                THEN Append(new_images,
                            NoisyImageInfo(image_info, new_image_id, r.path))
                ELSE new_images
          /\ img_src' = IF found THEN Append(img_src, idx) ELSE img_src
          /\ ann_src' =
                IF found
                THEN ann_src \o MatchingPositions(coco_data["annotations"], image_info.id)
                ELSE ann_src
    /\ UNCHANGED <<input_json, coco_data, out_json, json_writes, pixelVars>>

\* A variant that dumps as soon as one image has been processed.
WriteInsideLoop ==
    /\ pc = "loop"
    /\ idx > 1
    /\ coco_data' = [coco_data EXCEPT !["images"] = new_images,
                                      !["annotations"] = new_annotations]
    /\ out_json' = coco_data'
    /\ json_writes' = json_writes + 1
    /\ pc' = "done"
    /\ UNCHANGED <<input_json, new_images, new_annotations, idx, disk, out_files,
                   log, img_src, ann_src, abort_cause, pixelVars>>

\* A variant that dumps a mapping built from the two lists alone.
WriteFreshMapping ==
    /\ pc = "loop"
    /\ idx > Len(coco_data["images"])
    /\ coco_data' = [key \in {"images", "annotations"} |->
                        IF key = "images" THEN new_images ELSE new_annotations]
    /\ out_json' = coco_data'
    /\ json_writes' = json_writes + 1
    /\ pc' = "done"
    /\ UNCHANGED <<input_json, new_images, new_annotations, idx, disk, out_files,
                   log, img_src, ann_src, abort_cause, pixelVars>>

\* After the loop: replace the two lists in coco_data and json.dump it.
WriteAnnotations ==
    /\ pc = "loop"
    /\ idx > Len(coco_data["images"])
    /\ coco_data' = [coco_data EXCEPT !["images"] = new_images,
                                      !["annotations"] = new_annotations]
    /\ out_json' = coco_data'
    /\ json_writes' = json_writes + 1
    /\ pc' = "done"
    /\ UNCHANGED <<input_json, new_images, new_annotations, idx, disk, out_files,
                   log, img_src, ann_src, abort_cause, pixelVars>>

Next == Load \/ ProcessImage \/ WriteAnnotations

Spec == Init /\ [][Next]_vars

\* The run is one thread of control: it takes its next step while it has one.
FairSpec == Spec /\ WF_vars(Next)

(* -------------------------- pixel arithmetic -------------------------- *)

\* A float truncated toward zero, the float given in halves.
TruncHalves(n2) == IF n2 >= 0 THEN n2 \div 2 ELSE -((-n2) \div 2)

\* A variant that draws with a fixed, positive standard deviation.
NoiseSamplesFixedSigma(sigma) == (-2 * MaxNoise)..(2 * MaxNoise)

\* np.random.normal(0, noise_factor, shape): with standard deviation 0 every
\* sample is the mean; otherwise any real may be drawn, here the halves of
\* magnitude up to MaxNoise.
NoiseSamples(sigma) ==
    IF sigma = 0 THEN {0} ELSE (-2 * MaxNoise)..(2 * MaxNoise)

\* .astype(np.uint8) of a float: the value is truncated toward zero; a
\* truncated value in 0..255 is kept. Outside that range the C conversion
\* is undefined: builds either keep the low eight bits of the integer or,
\* for a negative value, store 0.
AsUint8(n2) ==
    LET t == TruncHalves(n2)
    IN  IF t >= 0 /\ t <= ClipMax THEN {t}
        ELSE IF t < 0 THEN {t % Uint8Mod, 0}
        ELSE {t % Uint8Mod}

\* image_array + noise on two np.uint8 arrays: the sum is np.uint8 and wraps.
Uint8Add(a, b) == (a + b) % Uint8Mod

\* np.clip(x, lo, hi)
Clip(x, lo, hi) == IF x < lo THEN lo ELSE IF x > hi THEN hi ELSE x

\* noisy_image_array for one component and one cast noise value.
NoisyComponent(p, w) == Clip(Uint8Add(p, w), 0, ClipMax)

IdleData ==
    /\ input_json = AnnotationSet(<<>>, <<>>, {})
    /\ coco_data = EmptyMapping
    /\ new_images = <<>>
    /\ new_annotations = <<>>
    /\ idx = 0
    /\ pc = "idle"
    /\ disk = [p \in InputPaths |-> "unopened"]
    /\ out_files = {}
    /\ out_json = EmptyMapping
    /\ json_writes = 0
    /\ log = <<>>
    /\ img_src = <<>>
    /\ ann_src = <<>>
    /\ abort_cause = ""

\* An image was opened and decoded: one component of it, and a noise factor.
NoiseInit ==
    /\ IdleData
    /\ image_array \in 0..ClipMax
    /\ noise_factor \in {0, EntryNoiseFactor}
    /\ noise2 = 0
    /\ noise = 0
    /\ noisy_image_array = 0
    /\ npc = "decoded"

\* Draw the noise, cast it, add it, clip the sum, save the result.
AddNoise ==
    /\ npc = "decoded"
    /\ \E n2 \in NoiseSamples(noise_factor) :
         \E w \in AsUint8(n2) :
            /\ noise2' = n2
            /\ noise' = w
            /\ noisy_image_array' = NoisyComponent(image_array, w)
    /\ npc' = "saved"
    /\ UNCHANGED <<image_array, noise_factor, dataVars>>

NoiseNext == AddNoise

NoiseSpec == NoiseInit /\ [][NoiseNext]_vars

(* ----------------------------- properties ----------------------------- *)

Done == pc = "done"

InImages == input_json["images"]

InAnnotations == input_json["annotations"]

OutImages == out_json["images"]

OutAnnotations == out_json["annotations"]

\* Input positions that were processed and whose image file was there and
\* decoded / was not found.
Loaded == {i \in DOMAIN log : disk[ImagePath(InImages[i])] = "present"}

NotFound == {i \in DOMAIN log : disk[ImagePath(InImages[i])] = "missing"}

\* The output ImageRecords whose id is v.
ImagesWithId(v) == {j \in DOMAIN OutImages : OutImages[j].id = v}

\* The noisy image files in images_subdir.
NoisyFiles == {f.path : f \in out_files}

Range(f) == {f[x] : x \in DOMAIN f}

\* C1 as claimed: after a completed run every output annotation's image_id
\* is the id of exactly one output ImageRecord.
C1_ExactlyOneImage ==
    Done => \A k \in DOMAIN OutAnnotations :
                Cardinality(ImagesWithId(OutAnnotations[k].image_id)) = 1

\* C1 as amended: after a completed run every output annotation's image_id
\* is the id of at least one output ImageRecord, and of exactly one when the
\* loaded input ImageRecords carry pairwise distinct ids.
C1_ReferentialIntegrity ==
    Done => \A k \in DOMAIN OutAnnotations :
                LET n == Cardinality(ImagesWithId(OutAnnotations[k].image_id))
                IN  /\ n >= 1
                    /\ (\A a, b \in Loaded :
                            InImages[a].id = InImages[b].id => a = b) => n = 1

C1_Witness ==
    /\ Done
    /\ Len(OutAnnotations) >= 2
    /\ Len(OutImages) >= 2
    /\ \A a, b \in Loaded : InImages[a].id = InImages[b].id => a = b

\* C2: after a completed run the output ImageRecord of every loaded input
\* image has id = input id + 4200000, every annotation of that image is in
\* the output with that image_id, and no output record carries another id.
C2_IdRemap ==
    Done =>
        /\ Len(OutImages) = Len(img_src)
        /\ Len(OutAnnotations) = Len(ann_src)
        /\ Range(img_src) = Loaded
        /\ \A j \in DOMAIN OutImages :
              OutImages[j].id = InImages[img_src[j]].id + IdOffset
        /\ \A i \in Loaded : \A q \in DOMAIN InAnnotations :
              InAnnotations[q].image_id = InImages[i].id =>
                 \E k \in DOMAIN OutAnnotations :
                    /\ ann_src[k] = q
                    /\ OutAnnotations[k].image_id = InImages[i].id + IdOffset
        /\ \A k \in DOMAIN OutAnnotations :
              /\ OutAnnotations[k].image_id =
                    InAnnotations[ann_src[k]].image_id + IdOffset
              /\ \E i \in Loaded :
                    OutAnnotations[k].image_id = InImages[i].id + IdOffset

C2_Witness ==
    /\ Done
    /\ Len(OutImages) >= 1
    /\ Len(OutAnnotations) >= 2
    /\ NotFound # {}

\* C3 as claimed: when the file of an ImageRecord with id K was not found,
\* the output holds no ImageRecord with id K + 4200000 and no annotation
\* with image_id K + 4200000.
C3_DropPropagation ==
    Done => \A i \in NotFound :
                LET v == InImages[i].id + IdOffset
                IN  /\ \A j \in DOMAIN OutImages : OutImages[j].id # v
                    /\ \A k \in DOMAIN OutAnnotations : OutAnnotations[k].image_id # v

\* C3 as amended: when the file of every ImageRecord with id K was not
\* found, the output holds no ImageRecord with id K + 4200000 and no
\* annotation with image_id K + 4200000.
C3_DropWhenNoneLoaded ==
    Done => \A i \in NotFound :
                (\A m \in DOMAIN InImages :
                    InImages[m].id = InImages[i].id => m \in NotFound) =>
                LET v == InImages[i].id + IdOffset
                IN  /\ \A j \in DOMAIN OutImages : OutImages[j].id # v
                    /\ \A k \in DOMAIN OutAnnotations : OutAnnotations[k].image_id # v

C3_Witness ==
    /\ Done
    /\ Loaded # {}
    /\ \E i \in NotFound :
          /\ \A m \in DOMAIN InImages : InImages[m].id = InImages[i].id => m \in NotFound
          /\ \E q \in DOMAIN InAnnotations : InAnnotations[q].image_id = InImages[i].id

\* C4: every output ImageRecord has the width and height of the input record
\* it was built from, every output annotation has the fields of the input
\* annotation it was copied from and, image_id aside, their values, and the
\* loaded annotations keep their image_id until they are replaced.
C4_GeometryPreserved ==
    /\ pc = "loop" => coco_data["annotations"] = InAnnotations
    /\ Done =>
        /\ \A j \in DOMAIN OutImages :
              /\ OutImages[j].width = InImages[img_src[j]].width
              /\ OutImages[j].height = InImages[img_src[j]].height
        /\ \A k \in DOMAIN OutAnnotations :
              /\ DOMAIN OutAnnotations[k] = DOMAIN InAnnotations[ann_src[k]]
              /\ \A f \in DOMAIN OutAnnotations[k] \ {"image_id"} :
                    OutAnnotations[k][f] = InAnnotations[ann_src[k]][f]

C4_Witness ==
    /\ Done
    /\ Len(OutAnnotations) >= 2
    /\ \E j1, j2 \in DOMAIN OutImages : OutImages[j1].width # OutImages[j2].width

\* The iteration that is about to run, and the path it opens.
InLoopBody == pc = "loop" /\ idx <= Len(coco_data["images"])

CurrentPath == ImagePath(coco_data["images"][idx])

\* C5: an iteration whose image is not found writes no file, adds nothing to
\* the result lists and leaves the loop running at the next image; a run
\* ends early only when the input JSON cannot be read or an image cannot be
\* decoded; and every run ends, with the annotation file written unless it
\* ended early.
C5_NotFoundIsSkipped ==
    /\ [][ /\ (InLoopBody /\ disk'[CurrentPath] = "missing") =>
                /\ pc' = "loop"
                /\ idx' = idx + 1
                /\ out_files' = out_files
                /\ new_images' = new_images
                /\ new_annotations' = new_annotations
                /\ log'[idx].path = None
           /\ (pc # "aborted" /\ pc' = "aborted") =>
                \/ pc = "start"
                \/ InLoopBody /\ disk'[CurrentPath] = "undecodable" ]_vars
    /\ <>(pc = "aborted" \/ (Done /\ json_writes = 1))

C5_Witness ==
    /\ Done
    /\ json_writes = 1
    /\ \E i, m \in DOMAIN log : i < m /\ log[i].path = None /\ log[m].path # None

\* C6: the annotation file is written at most once, and only when every
\* input ImageRecord has been processed, one after another in input order;
\* in every state before that the noisy images written so far exist and the
\* annotation file has not been written.
C6_WriteOrdering ==
    /\ json_writes <= 1
    /\ json_writes = 1 <=> Done
    /\ \A i \in DOMAIN log : log[i].image = i
    /\ Done => Len(log) = Len(InImages)
    /\ \A i \in Loaded : log[i].path \in NoisyFiles
    /\ pc = "loop" => Len(log) = idx - 1

C6_Witness ==
    /\ pc = "aborted"
    /\ Loaded # {}
    /\ NoisyFiles # {}
    /\ json_writes = 0

\* C9: the written AnnotationSet has the top-level fields of the loaded one;
\* images and annotations are the accumulated lists, which hold one
\* augmented record per loaded image and one per annotation of a loaded image
\* and nothing else; every other field has the value it was loaded with.
C9_TopLevelPassThrough ==
    Done =>
        /\ DOMAIN out_json = DOMAIN input_json
        /\ \A key \in DOMAIN input_json \ {"images", "annotations"} :
              out_json[key] = input_json[key]
        /\ OutImages = new_images
        /\ OutAnnotations = new_annotations
        /\ Len(OutImages) = Cardinality(Loaded)
        /\ Len(OutAnnotations) =
              Cardinality({ c \in Loaded \X DOMAIN InAnnotations :
                              InAnnotations[c[2]].image_id = InImages[c[1]].id })
        /\ \A j \in DOMAIN OutImages :
              LET name == OutImages[j].file_name
              IN  /\ Len(name) > Len(ImagesPrefix) + Len(NoiseSuffix)
                  /\ SubSeq(name, 1, Len(ImagesPrefix)) = ImagesPrefix
                  /\ SubSeq(name, Len(name) - Len(NoiseSuffix) + 1, Len(name)) = NoiseSuffix
        /\ \A k \in DOMAIN OutAnnotations :
              OutAnnotations[k].image_id = InAnnotations[ann_src[k]].image_id + IdOffset

C9_Witness ==
    /\ Done
    /\ "info" \in DOMAIN input_json
    /\ Len(InImages) > Len(OutImages)
    /\ Len(OutImages) >= 1
    /\ Len(OutAnnotations) >= 1

\* C10 as claimed, for inputs whose ImageRecords differ pairwise in id and in
\* file_name: after a completed run the output ImageRecords have pairwise
\* distinct file_names, images_subdir holds as many noisy image files as the
\* output has ImageRecords, and no noisy image was saved over an earlier one.
C10_OneFilePerRecord ==
    (/\ Done
     /\ \A a, b \in DOMAIN InImages :
           a # b => /\ InImages[a].id # InImages[b].id
                    /\ InImages[a].file_name # InImages[b].file_name) =>
        /\ \A j1, j2 \in DOMAIN OutImages :
              OutImages[j1].file_name = OutImages[j2].file_name => j1 = j2
        /\ Cardinality(NoisyFiles) = Len(OutImages)
        /\ \A a, b \in Loaded : log[a].path = log[b].path => a = b

\* C7 as claimed: the written component is the sum of the decoded component
\* and the 8 bit noise value, clipped to [0,255]: a sum above 255 gives 255.
C7_SumIsClipped ==
    npc = "saved" =>
        /\ noisy_image_array \in 0..ClipMax
        /\ noisy_image_array =
              (IF image_array + noise > ClipMax THEN ClipMax ELSE image_array + noise)

\* C8: with noise_factor 0 the written component equals the decoded one.
C8_ZeroNoiseIsIdentity ==
    (npc = "saved" /\ noise_factor = 0) => noisy_image_array = image_array

C8_Witness ==
    /\ npc = "saved"
    /\ noise_factor = 0
    /\ image_array = 200
    /\ noisy_image_array = 200

====
